---- MODULE Spec2Model ----
(***************************************************************************)
(* Server side of the memory game: the three route modules of the          *)
(* repository that keep game sessions and write the leaderboard.           *)
(*                                                                         *)
(*   "part_001"  src/unnamed/part_001: sessions in the MongoDB collection  *)
(*               "sessions", moves tracked by makeMove.                    *)
(*   "route_db"  src/app/api/leaderboard/route.ts lines 1-216: sessions in *)
(*               MongoDB, no move tracking, submitScore takes the score    *)
(*               from the request body.                                    *)
(*   "route_mem" src/app/api/leaderboard/route.ts lines 219-424: sessions  *)
(*               in the process-wide object gameSessions, moves tracked by *)
(*               recordMove.                                               *)
(*                                                                         *)
(* Spec runs the handlers one request at a time, each handler as one       *)
(* action.  SpecConc runs two requests of part_001 at once: a handler is   *)
(* an async function that gives up control at each await on the store, so  *)
(* there it is one action per store operation (findOne, updateOne).        *)
(* A value that JavaScript may leave undefined is a sequence of length 0   *)
(* (None) or 1 (Some(x)).                                                  *)
(***************************************************************************)
EXTENDS Integers, Sequences, FiniteSets, TLC

VARIABLES
    variant,      \* which route module is deployed
    client,       \* the module-level MongoClient of route.ts: "open" or "closed"
    now,          \* the server clock, Date.now()
    sessions,     \* the session store: session id -> stored session
    issued,       \* the ids uuidv4() has returned so far
    leaderboard,  \* the collection "leaderboard", in insertion order
    worker,       \* the handlers waiting on the store: request body and locals
    last,         \* the response sent last
    game,         \* the state of the MemoryGame component of memory-game.tsx
    localStorage  \* the item 'memoryGameLeaderboard' the component of part_000 saves

vars == <<variant, client, now, sessions, issued, leaderboard, worker, last, game,
         localStorage>>

----------------------------------------------------------------------------
(* Bounds and input sets *)

\* a client sends at most MaxFlips accepted flips for a session
MaxFlips == 5
\* no score is sent once the leaderboard holds MaxEntries entries
MaxEntries == 2

Variants == {"part_001", "route_db", "route_mem"}
Workers == {"w1", "w2"}
\* the values uuidv4() can return, and an id that no session ever has
SessionIds == {"s1"}
UnknownId == "s0"
RequestIds == SessionIds \cup {UnknownId}
\* the emoji lists a client sends to initializeGame
EmojiLists == {<<"A", "B">>}
\* the instants at which the server clock is read
Times == {1000, 1500, 2000, 2500, 6000}
\* the positions a client may send as cardId: those of a deck of two pairs,
\* and one outside it
CardIds == 0..4
\* what a client may claim as endTime (0 is falsy) and as moves
ClaimedEndTimes == {0, 5999, 6000, 7000}
ClaimedMoves == {<<>>, <<0>>, <<2>>}
\* what a client may send to route_db's submitScore as time
ClaimedTimes == {<<>>, <<1>>}
Names == {"Ann", ""}
Countries == {""}

None == <<>>
Some(x) == <<x>>
Val(o) == o[1]

----------------------------------------------------------------------------
(* Pure helpers *)

\* cards[i] of a JavaScript array: undefined outside 0..length-1
CardAt(cards, i) ==
    IF i \in 0..(Len(cards) - 1) THEN cards[i + 1] ELSE "undefined"

\* every arrangement of the elements of a list: what Array.prototype.sort
\* with a random comparator can return
Arrangements(s) ==
    LET elems == {s[i] : i \in 1..Len(s)}
    IN { d \in [1..Len(s) -> elems] :
           \A x \in elems :
               Cardinality({i \in 1..Len(s) : d[i] = x})
                   = Cardinality({i \in 1..Len(s) : s[i] = x}) }

\* a shuffle of the symbols themselves, not of the doubled list, for comparison
ShuffleUndoubled(emojis) == Arrangements(emojis)

\* [...emojis, ...emojis].sort(() => Math.random() - 0.5)
Shuffle(emojis) == Arrangements(emojis \o emojis)

\* !x of JavaScript, for a string and for a number
FalsyStr(x) == x = ""
FalsyNum(x) == x = 0

\* a JSON error response
Err(status, msg) == [status |-> status, error |-> msg]

\* country || <globe>
CountryOrDefault(country) == IF FalsyStr(country) THEN "globe" ELSE country

\* new Date().toISOString(): the instant, as the text that denotes it
ISOString(t) == <<"ISO-8601", t>>

Stored(sid) == sid \in DOMAIN sessions

\* insertOne into sessions / gameSessions[sessionId] = session
Insert(store, sid, session) ==
    [s \in DOMAIN store \cup {sid} |-> IF s = sid THEN session ELSE store[s]]

\* delete gameSessions[sessionId]
Delete(store, sid) == [s \in DOMAIN store \ {sid} |-> store[s]]

Idle == [pc |-> "idle", body |-> None, locals |-> None]

\* a handler that ran to its end: the collections are as it left them and its
\* response is the last one sent
Applied(result) ==
    /\ sessions' = result.sessions
    /\ leaderboard' = result.leaderboard
    /\ last' = Some(result.response)

----------------------------------------------------------------------------
(* part_001: initializeGame *)

encryptData(data, password) ==
    [cipher |-> "aes-256-gcm", password |-> password, data |-> data]

SECRET_PASSPHRASE == "passphrase"

\* lines 137-138: the deck goes back encrypted under the passphrase
initializeGameResponse(sid, cards) ==
    [status |-> 200, sessionId |-> sid,
     encryptedCards |-> encryptData(cards, SECRET_PASSPHRASE)]

initializeGame(emojis, cards) ==
    /\ variant = "part_001"
    /\ cards \in Shuffle(emojis)
    /\ \E sid \in SessionIds \ issued :
         LET session == [id |-> sid, startTime |-> now, cards |-> cards,
                         flippedCards |-> <<>>, matchedPairs |-> 0, moves |-> 0,
                         completed |-> FALSE, endTime |-> None]
         IN /\ sessions' = Insert(sessions, sid, session)
            /\ issued' = issued \cup {sid}
            /\ last' = Some(initializeGameResponse(sid, cards))
    /\ UNCHANGED <<variant, client, game, localStorage, now, leaderboard, worker>>

----------------------------------------------------------------------------
(* part_001: makeMove *)

\* a makeMove that refuses unknown sessions only, for comparison
makeMoveRejectsUnknownOnly(store, sid) == ~(sid \in DOMAIN store)

\* lines 152-156: the session makeMove refuses
makeMoveRejects(store, sid) == ~(sid \in DOMAIN store) \/ store[sid].completed

\* a makeMove that never starts flippedCards afresh, for comparison
MoveOutcomeNoRestart(session, cardId) ==
    LET appended == Append(session.flippedCards, cardId)
        pair == Len(appended) = 2
        match == pair /\ CardAt(session.cards, appended[1])
                           = CardAt(session.cards, appended[2])
        updatedMatchedPairs ==
            IF match THEN session.matchedPairs + 1 ELSE session.matchedPairs
    IN [flippedCards |-> IF match THEN <<>> ELSE appended,
        matchedPairs |-> updatedMatchedPairs,
        moves |-> IF pair THEN session.moves + 1 ELSE session.moves,
        completed |-> (updatedMatchedPairs * 2 = Len(session.cards)),
        matchedCardIds |-> IF match THEN appended ELSE <<>>]

\* a makeMove that hides both cards after every pair, matched or not, for
\* comparison
MoveOutcomeClearsPair(session, cardId) ==
    LET appended == Append(session.flippedCards, cardId)
        pair == Len(appended) = 2
        match == pair /\ CardAt(session.cards, appended[1])
                           = CardAt(session.cards, appended[2])
        updatedMatchedPairs ==
            IF match THEN session.matchedPairs + 1 ELSE session.matchedPairs
    IN [flippedCards |-> IF pair THEN <<>> ELSE appended,
        matchedPairs |-> updatedMatchedPairs,
        moves |-> IF pair THEN session.moves + 1 ELSE session.moves,
        completed |-> (updatedMatchedPairs * 2 = Len(session.cards)),
        matchedCardIds |-> IF match THEN appended ELSE <<>>]

\* lines 158-176: the values makeMove computes from the session it read
MoveOutcome(session, cardId) ==
    LET appended == Append(session.flippedCards, cardId)
        pair == Len(appended) = 2
        match == pair /\ CardAt(session.cards, appended[1])
                           = CardAt(session.cards, appended[2])
        updatedFlippedCards ==
            IF Len(appended) > 2 THEN <<cardId>>
            ELSE IF match THEN <<>> ELSE appended
        updatedMatchedPairs ==
            IF match THEN session.matchedPairs + 1 ELSE session.matchedPairs
        updatedMoves == IF pair THEN session.moves + 1 ELSE session.moves
    IN [flippedCards |-> updatedFlippedCards,
        matchedPairs |-> updatedMatchedPairs,
        moves |-> updatedMoves,
        completed |-> (updatedMatchedPairs * 2 = Len(session.cards)),
        matchedCardIds |-> IF match THEN appended ELSE <<>>]

\* an update that also stamps startTime with the instant of the move, for
\* comparison
makeMoveUpdateRestamps(store, sid, o, t) ==
    IF sid \in DOMAIN store
    THEN [store EXCEPT ![sid] =
            [@ EXCEPT !.flippedCards = o.flippedCards,
                      !.matchedPairs = o.matchedPairs,
                      !.moves = o.moves,
                      !.completed = o.completed,
                      !.startTime = t,
                      !.endTime = IF o.completed THEN Some(t) ELSE None]]
    ELSE store

\* lines 178-189: updateOne({id: sessionId}, {$set: ...}) at instant t
makeMoveUpdate(store, sid, o, t) ==
    IF sid \in DOMAIN store
    THEN [store EXCEPT ![sid] =
            [@ EXCEPT !.flippedCards = o.flippedCards,
                      !.matchedPairs = o.matchedPairs,
                      !.moves = o.moves,
                      !.completed = o.completed,
                      !.endTime = IF o.completed THEN Some(t) ELSE None]]
    ELSE store

\* lines 191-201
makeMoveResponse(o) == [status |-> 200, gameState |-> o, isComplete |-> o.completed]

\* the flips a session of part_001 has accepted
FlipsOf(session) ==
    2 * session.moves + (IF Len(session.flippedCards) = 1 THEN 1 ELSE 0)

MoveAllowed(sid) ==
    (Stored(sid) /\ ~sessions[sid].completed) => FlipsOf(sessions[sid]) < MaxFlips

\* lines 144-205: what one call at instant t makes of the two collections, and
\* what it answers
makeMoveResult(store, board, sid, cardId, t) ==
    IF makeMoveRejects(store, sid)
    THEN [sessions |-> store, leaderboard |-> board,
          response |-> Err(400, "Invalid or completed game session")]
    ELSE LET o == MoveOutcome(store[sid], cardId)
         IN [sessions |-> makeMoveUpdate(store, sid, o, t), leaderboard |-> board,
             response |-> makeMoveResponse(o)]

\* the whole handler
makeMove(sid, cardId) ==
    /\ variant = "part_001"
    /\ MoveAllowed(sid)
    /\ Applied(makeMoveResult(sessions, leaderboard, sid, cardId, now))
    /\ UNCHANGED <<variant, client, game, localStorage, now, issued, worker>>

----------------------------------------------------------------------------
(* part_001: completeGame *)

\* a completeGame that also refuses a game of exactly 5000 ms, for comparison
completeGameEarlyOver5000(store, sid, endTime, moves) ==
    IF FalsyStr(sid) \/ FalsyNum(endTime) \/ moves = None
    THEN Some(Err(400, "Invalid request body"))
    ELSE IF ~(sid \in DOMAIN store)
    THEN Some(Err(400, "Invalid game session"))
    ELSE IF store[sid].completed
    THEN Some([status |-> 200, success |-> TRUE, moves |-> store[sid].moves,
               time |-> Val(store[sid].endTime) - store[sid].startTime])
    ELSE IF endTime - store[sid].startTime <= 5000
    THEN Some(Err(400, "Suspicious game time"))
    ELSE None

\* lines 209-233: what completeGame answers without writing, if it does
completeGameEarly(store, sid, endTime, moves) ==
    IF FalsyStr(sid) \/ FalsyNum(endTime) \/ moves = None
    THEN Some(Err(400, "Invalid request body"))
    ELSE IF ~(sid \in DOMAIN store)
    THEN Some(Err(400, "Invalid game session"))
    ELSE IF store[sid].completed
    THEN Some([status |-> 200, success |-> TRUE, moves |-> store[sid].moves,
               time |-> Val(store[sid].endTime) - store[sid].startTime])
    ELSE IF endTime - store[sid].startTime < 5000
    THEN Some(Err(400, "Suspicious game time"))
    ELSE None

\* lines 235-238: updateOne({id: sessionId}, {$set: ...})
completeGameUpdate(store, sid, endTime, moves) ==
    IF sid \in DOMAIN store
    THEN [store EXCEPT ![sid] =
            [@ EXCEPT !.completed = TRUE, !.moves = Val(moves), !.endTime = Some(endTime)]]
    ELSE store

\* line 240
completeGameResponse(moves, gameTime) ==
    [status |-> 200, success |-> TRUE, moves |-> Val(moves), time |-> gameTime]

\* lines 207-244: what one call makes of the two collections, and what it answers
completeGameResult(store, board, sid, endTime, moves) ==
    LET early == completeGameEarly(store, sid, endTime, moves)
    IN IF early # None
       THEN [sessions |-> store, leaderboard |-> board, response |-> Val(early)]
       ELSE [sessions |-> completeGameUpdate(store, sid, endTime, moves),
             leaderboard |-> board,
             response |-> completeGameResponse(moves, endTime - store[sid].startTime)]

\* the whole handler
completeGame(sid, endTime, moves) ==
    /\ variant = "part_001"
    /\ Applied(completeGameResult(sessions, leaderboard, sid, endTime, moves))
    /\ UNCHANGED <<variant, client, game, localStorage, now, issued, worker>>

----------------------------------------------------------------------------
(* part_001: submitScore *)

\* lines 249-263: what submitScore answers without inserting, if it does
submitScoreEarly(store, sid, name) ==
    IF FalsyStr(sid) \/ FalsyStr(name)
    THEN Some(Err(400, "Missing required fields"))
    ELSE IF ~(sid \in DOMAIN store) \/ ~store[sid].completed
    THEN Some(Err(400, "Invalid game session"))
    ELSE None

\* lines 265-275
submitScoreEntry(session, sid, name, country, t) ==
    [name |-> name,
     time |-> Val(session.endTime) - session.startTime,
     moves |-> session.moves,
     country |-> CountryOrDefault(country),
     date |-> ISOString(t),
     sessionId |-> sid]

\* the whole handler
submitScore(sid, name, country) ==
    /\ variant = "part_001"
    /\ Len(leaderboard) < MaxEntries
    /\ LET early == submitScoreEarly(sessions, sid, name)
       IN IF early # None
          THEN /\ last' = early
               /\ leaderboard' = leaderboard
          ELSE /\ leaderboard' = Append(leaderboard,
                    submitScoreEntry(sessions[sid], sid, name, country, now))
               /\ last' = Some([status |-> 201, message |-> "Score submitted successfully"])
    /\ UNCHANGED <<variant, client, game, localStorage, now, sessions, issued, worker>>

----------------------------------------------------------------------------
(* route_db: initializeGame, completeGame, submitScore (route.ts lines 106-208) *)

\* line 125: the shuffled deck goes back as it is
initializeGameDbResponse(sid, cards) ==
    [status |-> 200, sessionId |-> sid, cards |-> cards]

initializeGameDb(emojis, cards) ==
    /\ variant = "route_db"
    /\ cards \in Shuffle(emojis)
    /\ \E sid \in SessionIds \ issued :
         LET session == [id |-> sid, startTime |-> now, cards |-> cards,
                         moves |-> 0, completed |-> FALSE, endTime |-> None]
         IN /\ sessions' = Insert(sessions, sid, session)
            /\ issued' = issued \cup {sid}
            /\ last' = Some(initializeGameDbResponse(sid, cards))
    /\ UNCHANGED <<variant, client, game, localStorage, now, leaderboard, worker>>

\* lines 134-163: what completeGame answers without writing, if it does
completeGameDbEarly(store, sid, endTime, moves) ==
    IF FalsyStr(sid) \/ FalsyNum(endTime) \/ moves = None
    THEN Some(Err(400, "Invalid request body"))
    ELSE IF ~(sid \in DOMAIN store)
    THEN Some(Err(400, "Invalid game session"))
    ELSE IF store[sid].completed
    THEN Some([status |-> 200, success |-> TRUE, moves |-> store[sid].moves,
               time |-> IF store[sid].endTime # None /\ ~FalsyNum(Val(store[sid].endTime))
                        THEN Val(store[sid].endTime) - store[sid].startTime
                        ELSE 0])
    ELSE IF endTime - store[sid].startTime < 5000
    THEN Some(Err(400, "Suspicious game time"))
    ELSE None

\* lines 132-176: what one call makes of the two collections, and what it
\* answers; lines 165-171 are updateOne and the response
completeGameDbResult(store, board, sid, endTime, moves) ==
    LET early == completeGameDbEarly(store, sid, endTime, moves)
    IN IF early # None
       THEN [sessions |-> store, leaderboard |-> board, response |-> Val(early)]
       ELSE [sessions |-> [store EXCEPT ![sid] =
                             [@ EXCEPT !.completed = TRUE, !.moves = Val(moves),
                                       !.endTime = Some(endTime)]],
             leaderboard |-> board,
             response |-> [status |-> 200, success |-> TRUE, moves |-> Val(moves),
                           time |-> endTime - store[sid].startTime]]

completeGameDb(sid, endTime, moves) ==
    /\ variant = "route_db"
    /\ Applied(completeGameDbResult(sessions, leaderboard, sid, endTime, moves))
    /\ UNCHANGED <<variant, client, game, localStorage, now, issued, worker>>

\* lines 178-208: the entry is built from the request body alone
submitScoreDb(sid, name, country, moves, time) ==
    /\ variant = "route_db"
    /\ Len(leaderboard) < MaxEntries
    /\ IF FalsyStr(sid) \/ FalsyStr(name) \/ moves = None \/ time = None
       THEN /\ last' = Some(Err(400, "Missing required fields"))
            /\ leaderboard' = leaderboard
       ELSE /\ leaderboard' = Append(leaderboard,
                 [name |-> name, time |-> Val(time), moves |-> Val(moves),
                  country |-> CountryOrDefault(country), date |-> ISOString(now),
                  sessionId |-> sid])
            /\ last' = Some([status |-> 201, message |-> "Score submitted successfully"])
    /\ UNCHANGED <<variant, client, game, localStorage, now, sessions, issued, worker>>

----------------------------------------------------------------------------
(* route_mem: the handlers over gameSessions (route.ts lines 284-403) *)

\* line 300: every card goes back as '?'
initializeGameMemResponse(sid, cards) ==
    [status |-> 200, sessionId |-> sid, cards |-> [i \in 1..Len(cards) |-> "?"]]

initializeGameMem(emojis, cards) ==
    /\ variant = "route_mem"
    /\ cards \in Shuffle(emojis)
    /\ \E sid \in SessionIds \ issued :
         LET session == [id |-> sid, startTime |-> now, cards |-> cards,
                         flippedCards |-> <<>>, matchedPairs |-> 0, moves |-> 0,
                         completed |-> FALSE, lastMoveTimestamp |-> now]
         IN /\ sessions' = Insert(sessions, sid, session)
            /\ issued' = issued \cup {sid}
            /\ last' = Some(initializeGameMemResponse(sid, cards))
    /\ UNCHANGED <<variant, client, game, localStorage, now, leaderboard, worker>>

\* array[i] of a JavaScript array of numbers: undefined outside it
IndexAt(array, i) == IF i \in 0..(Len(array) - 1) THEN Some(array[i + 1]) ELSE None

Includes(array, x) == \E i \in 1..Len(array) : array[i] = x

\* lines 322-335: the session after an accepted flip at instant t
recordMoveAccept(session, cardId, t) ==
    LET pushed == Append(session.flippedCards, cardId)
        pair == Len(pushed) = 2
        matchMade == pair /\ CardAt(session.cards, pushed[1]) = CardAt(session.cards, pushed[2])
        matchedPairs == IF matchMade THEN session.matchedPairs + 1 ELSE session.matchedPairs
        gameCompleted == pair /\ matchedPairs * 2 = Len(session.cards)
    IN [session EXCEPT !.lastMoveTimestamp = t,
                       !.flippedCards = IF pair THEN <<>> ELSE pushed,
                       !.moves = session.moves + 1,
                       !.matchedPairs = matchedPairs,
                       !.completed = IF gameCompleted THEN TRUE ELSE session.completed]

\* lines 341-349: the response, built from the session as recordMove left it
recordMoveResponse(before, after) ==
    LET matchMade == after.matchedPairs > before.matchedPairs
    IN [status |-> 200,
        moves |-> after.moves,
        matchedPairs |-> after.matchedPairs,
        flippedCards |-> after.flippedCards,
        completed |-> after.completed,
        revealedCards |->
            [i \in 1..Len(after.cards) |->
                IF matchMade /\ (Some(i - 1) = IndexAt(after.flippedCards, 0)
                                 \/ Some(i - 1) = IndexAt(after.flippedCards, 1))
                THEN after.cards[i] ELSE "?"]]

\* lines 303-350: what one call at instant t makes of the two collections, and
\* what it answers
recordMoveResult(store, board, sid, cardId, t) ==
    IF ~(sid \in DOMAIN store) \/ store[sid].completed
    THEN [sessions |-> store, leaderboard |-> board,
          response |-> Err(400, "Invalid game session")]
    ELSE IF t - store[sid].lastMoveTimestamp < 500
    THEN [sessions |-> store, leaderboard |-> board,
          response |-> Err(429, "Moving too fast")]
    ELSE IF Includes(store[sid].flippedCards, cardId)
              \/ Len(store[sid].flippedCards) >= 2
    THEN [sessions |-> [store EXCEPT ![sid].lastMoveTimestamp = t],
          leaderboard |-> board,
          response |-> Err(400, "Invalid move")]
    ELSE LET after == recordMoveAccept(store[sid], cardId, t)
         IN [sessions |-> [store EXCEPT ![sid] = after], leaderboard |-> board,
             response |-> recordMoveResponse(store[sid], after)]

\* the whole handler
recordMove(sid, cardId) ==
    /\ variant = "route_mem"
    /\ (Stored(sid) /\ ~sessions[sid].completed) => sessions[sid].moves < MaxFlips
    /\ Applied(recordMoveResult(sessions, leaderboard, sid, cardId, now))
    /\ UNCHANGED <<variant, client, game, localStorage, now, issued, worker>>

\* lines 352-368: the answer of completeGame, which writes nothing
completeGameMemResponse(store, sid, endTime) ==
    IF ~(sid \in DOMAIN store) \/ ~store[sid].completed
    THEN Err(400, "Invalid game session or game not completed")
    ELSE IF endTime - store[sid].startTime < 5000
    THEN Err(400, "Suspicious game time")
    ELSE [status |-> 200, success |-> TRUE, moves |-> store[sid].moves,
          time |-> endTime - store[sid].startTime]

completeGameMemResult(store, board, sid, endTime) ==
    [sessions |-> store, leaderboard |-> board,
     response |-> completeGameMemResponse(store, sid, endTime)]

completeGameMem(sid, endTime) ==
    /\ variant = "route_mem"
    /\ Applied(completeGameMemResult(sessions, leaderboard, sid, endTime))
    /\ UNCHANGED <<variant, client, game, localStorage, now, issued, worker>>

\* lines 370-403: the session check, insertOne and the clean-up
submitScoreMem(sid, name, country) ==
    /\ variant = "route_mem"
    /\ Len(leaderboard) < MaxEntries
    /\ IF ~Stored(sid) \/ ~sessions[sid].completed
       THEN /\ last' = Some(Err(400, "Invalid game session or game not completed"))
            /\ UNCHANGED <<leaderboard, sessions>>
       ELSE /\ leaderboard' = Append(leaderboard,
                 [name |-> name, time |-> now - sessions[sid].startTime,
                  moves |-> sessions[sid].moves,
                  country |-> CountryOrDefault(country), date |-> ISOString(now)])
            /\ sessions' = Delete(sessions, sid)
            /\ last' = Some([status |-> 201, message |-> "Score submitted successfully"])
    /\ UNCHANGED <<variant, client, game, localStorage, now, issued, worker>>

----------------------------------------------------------------------------
(* GET: the leaderboard listing, the same in the three modules *)

\* limit(10)
PageSize == 10

\* sort({ time: 1 }) over the documents with indices S: every order of them that
\* ascends in time.  The store fixes no order among documents of equal time.
RECURSIVE SortByTime(_, _)
SortByTime(board, S) ==
    IF S = {} THEN {<<>>}
    ELSE LET least == {i \in S : \A j \in S : board[i].time <= board[j].time}
         IN UNION {{<<board[i]>> \o rest : rest \in SortByTime(board, S \ {i})} :
                      i \in least}

Limit(documents, n) ==
    SubSeq(documents, 1, IF Len(documents) < n THEN Len(documents) ELSE n)

\* line 69 and the response: the JSON body is the array of entries itself
GETResponses(board) ==
    {[status |-> 200, json |-> Limit(sorted, PageSize)] :
        sorted \in SortByTime(board, 1..Len(board))}

\* the page the client asks for is not read
GET(page) ==
    /\ last' \in {Some(r) : r \in GETResponses(leaderboard)}
    /\ UNCHANGED <<variant, client, game, localStorage, now, sessions, issued, leaderboard, worker>>

----------------------------------------------------------------------------
(* The clock *)

\* time passes; the instants before the first session exists are not told apart
TickTo(t) ==
    /\ issued # {}
    /\ t > now
    /\ now' = t
    /\ UNCHANGED <<variant, client, game, localStorage, sessions, issued, leaderboard,
                   worker, last>>

----------------------------------------------------------------------------
(* The server process *)

\* the process stops and starts again: the module is loaded anew, so the
\* gameSessions object of route.ts line 244 is empty again, while the
\* collections of the database are as they were
Restart ==
    /\ sessions' = IF variant = "route_mem" THEN << >> ELSE sessions
    /\ worker' = [w \in Workers |-> Idle]
    /\ UNCHANGED <<variant, client, game, localStorage, now, issued, leaderboard, last>>

----------------------------------------------------------------------------

(* part_001 with two requests in flight: makeMove and completeGame, one     *)
(* action per store operation.  A worker keeps the body and the locals of its *)
(* request until it takes the next one.                                       *)

\* lines 144-156: findOne and the session check
makeMoveRead(w, sid, cardId) ==
    /\ variant = "part_001"
    /\ worker[w].pc # "updateOne"
    /\ MoveAllowed(sid)
    /\ LET body == [action |-> "makeMove", sessionId |-> sid, cardId |-> cardId]
       IN IF makeMoveRejects(sessions, sid)
          THEN /\ last' = Some(Err(400, "Invalid or completed game session"))
               /\ worker' = [worker EXCEPT ![w] =
                                [pc |-> "rejected", body |-> Some(body), locals |-> None]]
          ELSE /\ last' = last
               /\ worker' = [worker EXCEPT ![w] =
                                [pc |-> "updateOne", body |-> Some(body),
                                 locals |-> Some([session |-> sessions[sid]])]]
    /\ UNCHANGED <<variant, client, game, localStorage, now, sessions, issued, leaderboard>>

\* lines 158-201: the computation on the session read, updateOne, the response
makeMoveWrite(w) ==
    /\ variant = "part_001"
    /\ worker[w].pc = "updateOne"
    /\ Val(worker[w].body).action = "makeMove"
    /\ LET body == Val(worker[w].body)
           o == MoveOutcome(Val(worker[w].locals).session, body.cardId)
       IN /\ sessions' = makeMoveUpdate(sessions, body.sessionId, o, now)
          /\ last' = Some(makeMoveResponse(o))
    /\ worker' = [worker EXCEPT ![w].pc = "done"]
    /\ UNCHANGED <<variant, client, game, localStorage, now, issued, leaderboard>>

\* lines 207-233: the body check, findOne and the checks on the session
completeGameRead(w, sid, endTime, moves) ==
    /\ variant = "part_001"
    /\ worker[w].pc # "updateOne"
    /\ LET body == [action |-> "completeGame", sessionId |-> sid,
                    endTime |-> endTime, moves |-> moves]
           early == completeGameEarly(sessions, sid, endTime, moves)
       IN IF early # None
          THEN /\ last' = early
               /\ worker' = [worker EXCEPT ![w] =
                                [pc |-> "rejected", body |-> Some(body), locals |-> None]]
          ELSE /\ last' = last
               /\ worker' = [worker EXCEPT ![w] =
                                [pc |-> "updateOne", body |-> Some(body),
                                 locals |-> Some([session |-> sessions[sid]])]]
    /\ UNCHANGED <<variant, client, game, localStorage, now, sessions, issued, leaderboard>>

\* lines 235-240: updateOne and the response
completeGameWrite(w) ==
    /\ variant = "part_001"
    /\ worker[w].pc = "updateOne"
    /\ Val(worker[w].body).action = "completeGame"
    /\ LET body == Val(worker[w].body)
       IN /\ sessions' = completeGameUpdate(sessions, body.sessionId, body.endTime, body.moves)
          /\ last' = Some(completeGameResponse(body.moves,
                            body.endTime - Val(worker[w].locals).session.startTime))
    /\ worker' = [worker EXCEPT ![w].pc = "done"]
    /\ UNCHANGED <<variant, client, game, localStorage, now, issued, leaderboard>>

----------------------------------------------------------------------------

\* memory-game.tsx lines 14-32: the useState initial values, with the timers
\* setTimeout has pending and the requests the component is waiting on
Unmounted ==
    [cards |-> << >>, flippedCards |-> << >>, matchedPairs |-> 0, moves |-> 0,
     isGameComplete |-> FALSE, titleClickCount |-> 0, sessionId |-> None,
     hasSubmitted |-> FALSE, isEasterEggActivated |-> FALSE,
     showNameModal |-> FALSE, isSubmitting |-> FALSE,
     timers |-> {}, pending |-> {}]

Init ==
    /\ variant \in Variants
    /\ client = "closed"
    /\ game = Unmounted
    /\ localStorage = << >>
    /\ now = 1000
    /\ sessions = << >>
    /\ issued = {}
    /\ leaderboard = << >>
    /\ worker = [w \in Workers |-> Idle]
    /\ last = None

Next ==
    \/ \E t \in Times : TickTo(t)
    \/ \E emojis \in EmojiLists : \E cards \in Shuffle(emojis) : initializeGame(emojis, cards)
    \/ \E sid \in RequestIds, cardId \in CardIds : makeMove(sid, cardId)
    \/ \E sid \in RequestIds, endTime \in ClaimedEndTimes, moves \in ClaimedMoves :
         completeGame(sid, endTime, moves)
    \/ \E sid \in RequestIds, name \in Names, country \in Countries :
         submitScore(sid, name, country)
    \/ \E emojis \in EmojiLists : \E cards \in Shuffle(emojis) : initializeGameDb(emojis, cards)
    \/ \E sid \in RequestIds, endTime \in ClaimedEndTimes, moves \in ClaimedMoves :
         completeGameDb(sid, endTime, moves)
    \/ \E sid \in RequestIds, name \in Names, country \in Countries,
          moves \in ClaimedMoves, time \in ClaimedTimes :
         submitScoreDb(sid, name, country, moves, time)
    \/ \E emojis \in EmojiLists : \E cards \in Shuffle(emojis) : initializeGameMem(emojis, cards)
    \/ \E sid \in RequestIds, cardId \in CardIds : recordMove(sid, cardId)
    \/ \E sid \in RequestIds, endTime \in ClaimedEndTimes : completeGameMem(sid, endTime)
    \/ \E sid \in RequestIds, name \in Names, country \in Countries :
         submitScoreMem(sid, name, country)
    \/ Restart

Spec == Init /\ [][Next]_vars

\* the inputs of the requests that run two at a time
ConcDecks == {<<"A", "A", "B", "B">>}
ConcCardIds == 0..2
ConcTimes == {1000, 6000}
ConcEndTimes == {6000, 7000}
ConcMoves == {<<2>>}

InitConc == Init /\ variant = "part_001"

NextConc ==
    \/ \E t \in ConcTimes : TickTo(t)
    \/ \E emojis \in EmojiLists : \E cards \in ConcDecks : initializeGame(emojis, cards)
    \/ \E w \in Workers, sid \in SessionIds, cardId \in ConcCardIds :
         makeMoveRead(w, sid, cardId)
    \/ \E w \in Workers : makeMoveWrite(w)
    \/ \E w \in Workers, sid \in SessionIds, endTime \in ConcEndTimes, moves \in ConcMoves :
         completeGameRead(w, sid, endTime, moves)
    \/ \E w \in Workers : completeGameWrite(w)

SpecConc == InitConc /\ [][NextConc]_vars

----------------------------------------------------------------------------
(* The listing over a leaderboard that earlier games have filled *)

MaxListed == 3
ListTimes == {1500, 3000, 4200}
Pages == 1..2

\* the entry submitScore stored as the i-th, for a game of the given time
ListedEntry(time, i) ==
    [name |-> "Ann", time |-> time, moves |-> 2, country |-> CountryOrDefault(""),
     date |-> ISOString(1000 * i), sessionId |-> "s1"]

BoardOf(times) == [i \in 1..Len(times) |-> ListedEntry(times[i], i)]

\* one entry more than a page holds, the slowest game submitted first
LongBoard == [i \in 1..(PageSize + 1) |-> ListedEntry(1000 * (PageSize + 7 - i), i)]

Boards ==
    {BoardOf(times) : times \in UNION {[1..n -> ListTimes] : n \in 0..MaxListed}}
        \cup {LongBoard}

InitList ==
    /\ variant \in Variants
    /\ now = 1000
    /\ sessions = <<>>
    /\ issued = {}
    /\ leaderboard \in Boards
    /\ worker = [w \in Workers |-> Idle]
    /\ last = None
    /\ client = "closed"
    /\ game = Unmounted
    /\ localStorage = << >>

NextList == \E page \in Pages : GET(page)

SpecList == InitList /\ [][NextList]_vars

----------------------------------------------------------------------------
(* The claims *)

HasMatchState == variant \in {"part_001", "route_mem"}

\* C1: a stored session is completed if and only if matchedPairs equals
\* cards.length / 2
C1_CompletedIffAllMatched ==
    HasMatchState =>
        \A sid \in DOMAIN sessions :
            sessions[sid].completed
                <=> (sessions[sid].matchedPairs * 2 = Len(sessions[sid].cards))

\* what one makeMove call makes of a session when it runs alone
ApplyMove(session, cardId) ==
    IF session.completed THEN session
    ELSE LET o == MoveOutcome(session, cardId)
         IN [session EXCEPT !.flippedCards = o.flippedCards,
                            !.matchedPairs = o.matchedPairs,
                            !.moves = o.moves,
                            !.completed = o.completed]

MoveFields(session) == <<session.flippedCards, session.matchedPairs, session.moves>>

\* both workers have finished a makeMove on the same session, each having read
\* the same stored session
Overlapped(v, w) ==
    /\ v # w
    /\ worker[v].pc = "done" /\ worker[w].pc = "done"
    /\ Val(worker[v].body).action = "makeMove"
    /\ Val(worker[w].body).action = "makeMove"
    /\ Val(worker[v].body).sessionId = Val(worker[w].body).sessionId
    /\ Val(worker[v].locals).session = Val(worker[w].locals).session

\* C2: two concurrent makeMove calls on one session leave flippedCards,
\* matchedPairs and moves as running the two calls one after the other, in one
\* of the two orders, would
C2_ConcurrentMovesSerialized ==
    \A v, w \in Workers :
        Overlapped(v, w) =>
            LET base == Val(worker[v].locals).session
                cv == Val(worker[v].body).cardId
                cw == Val(worker[w].body).cardId
                sid == Val(worker[v].body).sessionId
            IN MoveFields(sessions[sid])
                 \in {MoveFields(ApplyMove(ApplyMove(base, cv), cw)),
                      MoveFields(ApplyMove(ApplyMove(base, cw), cv))}

\* C3: the leaderboard holds at most one entry for each session
C3_OneEntryPerSession ==
    /\ variant = "part_001" =>
         \A i, j \in 1..Len(leaderboard) :
            i # j => leaderboard[i].sessionId # leaderboard[j].sessionId
    /\ variant = "route_mem" => Len(leaderboard) <= Cardinality(issued)

\* the step adds an entry to the leaderboard
Inserts == Len(leaderboard') = Len(leaderboard) + 1
Inserted == leaderboard'[Len(leaderboard')]

\* the step makes the stored session sid completed
Completes(sid) ==
    /\ sid \in DOMAIN sessions /\ sid \in DOMAIN sessions'
    /\ ~sessions[sid].completed /\ sessions'[sid].completed

\* C4: the completion time a session records is the server's clock at the step
\* that completes it, and the time of an entry is that recorded time minus the
\* recorded start time (route_mem records the completing flip's instant as
\* lastMoveTimestamp), so that no value sent by the client enters it
C4_EntryTimeServerRecorded ==
    [][/\ \A sid \in SessionIds :
            (variant # "route_mem" /\ Completes(sid))
                => sessions'[sid].endTime = Some(now)
       /\ (variant # "route_mem" /\ Inserts /\ Inserted.sessionId \in DOMAIN sessions)
            => LET session == sessions[Inserted.sessionId]
               IN /\ session.endTime # None
                  /\ Inserted.time = Val(session.endTime) - session.startTime
       /\ \A sid \in SessionIds :
            (variant = "route_mem" /\ Inserts /\ sid \in DOMAIN sessions
                /\ ~(sid \in DOMAIN sessions'))
                => Inserted.time = sessions[sid].lastMoveTimestamp - sessions[sid].startTime
      ]_vars

\* C5: completeGame never replaces the stored moves of a session by the moves the
\* client claims, and an entry's moves is the stored moves of its session
C5_MovesServerCounted ==
    [][/\ \A sid \in SessionIds, endTime \in ClaimedEndTimes, moves \in ClaimedMoves :
            (completeGame(sid, endTime, moves) /\ Stored(sid))
                => sessions'[sid].moves = sessions[sid].moves
       /\ \A sid \in SessionIds, name \in Names, country \in Countries :
            (submitScore(sid, name, country) /\ Inserts)
                => Inserted.moves = sessions[sid].moves
      ]_vars

NoSuchOrCompleted(sid) == ~Stored(sid) \/ sessions[sid].completed

InvalidPosition(session, cardId) ==
    \/ Includes(session.flippedCards, cardId)
    \/ ~(cardId \in 0..(Len(session.cards) - 1))

\* C7: a move whose position is already in flippedCards or outside the deck is
\* answered with an error and leaves flippedCards as it was
C7_InvalidMoveRejected ==
    [][\A sid \in SessionIds, cardId \in CardIds :
          /\ (makeMove(sid, cardId) /\ ~NoSuchOrCompleted(sid)
                /\ InvalidPosition(sessions[sid], cardId))
                => /\ Val(last').status = 400
                   /\ sessions'[sid].flippedCards = sessions[sid].flippedCards
          /\ (recordMove(sid, cardId) /\ ~NoSuchOrCompleted(sid)
                /\ now - sessions[sid].lastMoveTimestamp >= 500
                /\ InvalidPosition(sessions[sid], cardId))
                => /\ last' = Some(Err(400, "Invalid move"))
                   /\ sessions'[sid].flippedCards = sessions[sid].flippedCards
      ]_vars

\* the response carries, besides status and error, a positive number: the wait
PositiveWaitHint(resp) ==
    \E f \in DOMAIN resp \ {"status", "error"} : resp[f] \in Nat \ {0}

\* C8: a move sent less than 500 ms after the last accepted move of its session
\* is answered as rate-limited, with a positive wait hint
C8_RateLimitedWithHint ==
    [][\A sid \in SessionIds, cardId \in CardIds :
          (recordMove(sid, cardId) /\ ~NoSuchOrCompleted(sid)
              /\ now - sessions[sid].lastMoveTimestamp < 500)
              => /\ Val(last').status = 429
                 /\ PositiveWaitHint(Val(last'))
      ]_vars

\* the response is the success response of completeGame
Accepted(resp) == resp.status = 200 /\ resp.success = TRUE

\* completeGame of the deployed module, called in the current state
completeGameHere(sid, endTime, moves) ==
    CASE variant = "part_001" ->
            completeGameResult(sessions, leaderboard, sid, endTime, moves)
      [] variant = "route_db" ->
            completeGameDbResult(sessions, leaderboard, sid, endTime, moves)
      [] variant = "route_mem" ->
            completeGameMemResult(sessions, leaderboard, sid, endTime)

\* C9 as stated: for an existing session, whatever its state, completeGame
\* rejects a request whose claimed endTime is less than 5000 ms after startTime
\* and accepts one, carrying endTime and moves, whose claimed endTime is at
\* least 5001 ms after it
C9_AsStated ==
    \A sid \in DOMAIN sessions, endTime \in ClaimedEndTimes \ {0},
       moves \in ClaimedMoves \ {None} :
        LET r == completeGameHere(sid, endTime, moves)
        IN /\ endTime - sessions[sid].startTime < 5000 => r.response.status = 400
           /\ endTime - sessions[sid].startTime >= 5001 => Accepted(r.response)

\* C9: in part_001 and route_db, completeGame on a stored session that is not
\* completed rejects a claimed endTime less than 5000 ms after startTime and
\* leaves the session as it was, and accepts a request that carries endTime and
\* moves with endTime 5000 ms or more after startTime, completing the session;
\* on a session that is already completed such a request is answered with
\* success whatever endTime it claims.  In route_mem completeGame applies the
\* same threshold to a session completed by its moves and rejects a session that
\* is not completed whatever endTime is claimed.
C9_MinimumGameTime ==
    \A sid \in DOMAIN sessions, endTime \in ClaimedEndTimes, moves \in ClaimedMoves :
        LET r == completeGameHere(sid, endTime, moves)
            session == sessions[sid]
            delta == endTime - session.startTime
            wellFormed == ~FalsyNum(endTime) /\ moves # None
        IN /\ variant \in {"part_001", "route_db"} =>
                /\ (~session.completed /\ delta < 5000)
                      => /\ r.response.status = 400
                         /\ wellFormed => r.response = Err(400, "Suspicious game time")
                         /\ r.sessions = sessions
                /\ (~session.completed /\ wellFormed /\ delta >= 5000)
                      => /\ Accepted(r.response)
                         /\ r.sessions[sid].completed
                /\ (session.completed /\ wellFormed)
                      => /\ Accepted(r.response)
                         /\ r.sessions = sessions
           /\ variant = "route_mem" =>
                /\ r.sessions = sessions
                /\ ~session.completed => r.response.status = 400
                /\ (session.completed /\ delta < 5000)
                      => r.response = Err(400, "Suspicious game time")
                /\ (session.completed /\ delta >= 5000) => Accepted(r.response)

\* completeGame of part_001 has refused a session that is not completed for its
\* claimed time
C9_Witness ==
    /\ variant = "part_001"
    /\ Stored("s1") /\ ~sessions["s1"].completed
    /\ last = Some(Err(400, "Suspicious game time"))

\* C10: on a completed session completeGame answers with success and with the
\* same moves and time whatever endTime and moves the request claims, and
\* leaves the session store as it was
C10_CompleteGameIdempotent ==
    \A sid \in DOMAIN sessions :
        sessions[sid].completed =>
            \A e1, e2 \in ClaimedEndTimes \ {0}, m1, m2 \in ClaimedMoves \ {None} :
                LET r1 == completeGameHere(sid, e1, m1)
                    r2 == completeGameHere(sid, e2, m2)
                IN /\ r1.sessions = sessions
                   /\ Accepted(r1.response)
                   /\ r1.response = r2.response

\* the session submitScore refers to is missing or not yet completed
MissingOrUnfinished(sid) == ~Stored(sid) \/ ~sessions[sid].completed

\* C11: submitScore for a session that is missing or not yet completed answers
\* with an error and leaves the leaderboard as it was
C11_ScoreNeedsCompletedSession ==
    [][\A sid \in RequestIds, name \in Names, country \in Countries :
          MissingOrUnfinished(sid) =>
              /\ submitScore(sid, name, country)
                    => Val(last').status = 400 /\ leaderboard' = leaderboard
              /\ submitScoreMem(sid, name, country)
                    => Val(last').status = 400 /\ leaderboard' = leaderboard
              /\ \A moves \in ClaimedMoves, time \in ClaimedTimes :
                    submitScoreDb(sid, name, country, moves, time)
                        => Val(last').status = 400 /\ leaderboard' = leaderboard
      ]_vars

\* the last response is a leaderboard listing
Listed == last # None /\ "json" \in DOMAIN Val(last)

\* the instant an entry was submitted
SubmittedAt(entry) == entry.date[2]

\* C12: a listing ascends in elapsed time, and entries of equal elapsed time
\* appear earliest submission first
C12_ListingOrder ==
    Listed =>
        LET listing == Val(last).json
        IN \A i, j \in 1..Len(listing) :
              i < j =>
                 \/ listing[i].time < listing[j].time
                 \/ /\ listing[i].time = listing[j].time
                    /\ SubmittedAt(listing[i]) <= SubmittedAt(listing[j])

Ceil(n, d) == (n + d - 1) \div d

RECURSIVE ConcatPages(_, _)
ConcatPages(pages, k) == IF k = 0 THEN <<>> ELSE ConcatPages(pages, k - 1) \o pages[k]

\* C13: for n stored entries, the listings of pages 1..ceil(n/10) put one after
\* the other hold every stored entry exactly once in sorted order, and a listing
\* reports totalPages = ceil(n/10)
C13_Pagination ==
    Listed =>
        LET n == Len(leaderboard)
            listings == {r.json : r \in GETResponses(leaderboard)}
        IN /\ \A pages \in [1..Ceil(n, PageSize) -> listings] :
                 ConcatPages(pages, Ceil(n, PageSize))
                    \in SortByTime(leaderboard, 1..n)
           /\ "totalPages" \in DOMAIN Val(last)
           /\ Val(last).totalPages = Ceil(n, PageSize)

\* the session sid is stored before and after the step
Kept(sid) == sid \in DOMAIN sessions /\ sid \in DOMAIN sessions'

\* C14: a stored session whose completed flag is true keeps it true in the next
\* stored state
C14_CompletedIrreversible ==
    [][\A sid \in SessionIds :
          (Stored(sid) /\ sessions[sid].completed)
              => (Kept(sid) /\ sessions'[sid].completed)
      ]_vars

\* C15: a stored endTime comes with completed = true, and a step neither changes
\* nor clears an endTime that has a value
C15_EndTimeImmutable ==
    [][\A sid \in SessionIds :
          Kept(sid) =>
              /\ sessions'[sid].endTime # None => sessions'[sid].completed
              /\ sessions[sid].endTime # None
                    => sessions'[sid].endTime = sessions[sid].endTime
      ]_vars

\* C16: matchedPairs of a stored session does not decrease in a step
C16_MatchedPairsMonotone ==
    [][\A sid \in SessionIds :
          Kept(sid) => sessions'[sid].matchedPairs >= sessions[sid].matchedPairs
      ]_vars

\* the flip is the second of a pair: one position is revealed
SecondFlip(session) == Len(session.flippedCards) = 1

\* position 0 is revealed and positions 0 and 1 hold the same symbol, in a deck
\* of more than one pair with no pair matched yet
RevealedPairAt01(session) ==
    /\ session.flippedCards = <<0>> /\ session.matchedPairs = 0
    /\ session.cards[1] = session.cards[2]
    /\ Len(session.cards) > 2

\* C17: an accepted first flip of a pair leaves moves as it was and an accepted
\* second flip adds one to it; after flipping positions 0 and 1 of a new session,
\* which hold the same symbol, the response shows matchedPairs = 1, moves = 1 and
\* completed = false
C17_MovesCountPairs ==
    [][\A sid \in SessionIds, cardId \in CardIds :
          /\ (makeMove(sid, cardId) /\ ~NoSuchOrCompleted(sid))
                => /\ sessions'[sid].moves
                        = sessions[sid].moves
                            + (IF SecondFlip(sessions[sid]) THEN 1 ELSE 0)
                   /\ (RevealedPairAt01(sessions[sid]) /\ sessions[sid].moves = 0
                            /\ cardId = 1)
                        => /\ Val(last').gameState.matchedPairs = 1
                           /\ Val(last').gameState.moves = 1
                           /\ Val(last').isComplete = FALSE
          /\ (recordMove(sid, cardId) /\ ~NoSuchOrCompleted(sid)
                    /\ Val(last').status = 200)
                => /\ sessions'[sid].moves
                        = sessions[sid].moves
                            + (IF SecondFlip(sessions[sid]) THEN 1 ELSE 0)
                   /\ (RevealedPairAt01(sessions[sid]) /\ cardId = 1)
                        => /\ Val(last').matchedPairs = 1
                           /\ Val(last').moves = 1
                           /\ Val(last').completed = FALSE
      ]_vars

\* C18: moves of a stored session does not decrease in a step
C18_MovesMonotone ==
    [][\A sid \in SessionIds :
          Kept(sid) => sessions'[sid].moves >= sessions[sid].moves
      ]_vars

\* the position flipped holds the symbol of the position already revealed
MatchesRevealed(session, cardId) ==
    CardAt(session.cards, session.flippedCards[1]) = CardAt(session.cards, cardId)

\* one more pair brings matchedPairs to cards.length / 2
LastPair(session) == (session.matchedPairs + 1) * 2 = Len(session.cards)

\* C19: an accepted second flip that matches and brings matchedPairs to
\* cards.length / 2 stores completed = true and endTime = the server's current
\* time in the same write; one that matches and leaves matchedPairs below it adds
\* one to matchedPairs, clears flippedCards and leaves completed false
C19_MatchingSecondFlip ==
    [][\A sid \in SessionIds, cardId \in CardIds :
          (/\ HasMatchState /\ ~NoSuchOrCompleted(sid)
           /\ SecondFlip(sessions[sid]) /\ MatchesRevealed(sessions[sid], cardId)
           /\ \/ makeMove(sid, cardId)
              \/ recordMove(sid, cardId) /\ Val(last').status = 200)
             => IF LastPair(sessions[sid])
                THEN /\ sessions'[sid].completed
                     /\ "endTime" \in DOMAIN sessions'[sid]
                     /\ sessions'[sid].endTime = Some(now)
                ELSE /\ sessions'[sid].matchedPairs = sessions[sid].matchedPairs + 1
                     /\ sessions'[sid].flippedCards = <<>>
                     /\ ~sessions'[sid].completed
      ]_vars

\* C20: the flippedCards of every stored session holds at most 2 positions
C20_AtMostTwoFlipped ==
    HasMatchState =>
        \A sid \in DOMAIN sessions : Len(sessions[sid].flippedCards) <= 2

\* a session of part_001 holds two revealed positions that did not match
C20_Witness ==
    /\ variant = "part_001"
    /\ Stored("s1") /\ Len(sessions["s1"].flippedCards) = 2

----------------------------------------------------------------------------
(* C21: no position of an already matched pair is accepted into a session's
   flippedCards.  The stored session keeps no list of matched positions; the
   pair matched by the previous move is read from that move's response
   (gameState.matchedCardIds), and the next move flips one of its positions. *)

JustMatched(cardId) ==
    /\ last # None
    /\ "gameState" \in DOMAIN Val(last)
    /\ Len(Val(last).gameState.matchedCardIds) = 2
    /\ Val(last).gameState.matchedCardIds[1] # Val(last).gameState.matchedCardIds[2]
    /\ Includes(Val(last).gameState.matchedCardIds, cardId)

C21_MatchedNeverRevealedAgain ==
    [][\A sid \in SessionIds, cardId \in CardIds :
         (JustMatched(cardId) /\ makeMove(sid, cardId))
            => ~Includes(sessions'[sid].flippedCards, cardId)]_vars

----------------------------------------------------------------------------
(* The client of memory-game.tsx: it holds NEXT_PUBLIC_SECRET_PASSPHRASE, the
   passphrase the server decrypts its request with, and decryptData. *)

NEXT_PUBLIC_SECRET_PASSPHRASE == SECRET_PASSPHRASE

\* AES-GCM decryption: the plaintext under the right passphrase, a throw otherwise
decryptData(encryptedData, password) ==
    IF encryptedData.password = password THEN Some(encryptedData.data) ELSE None

\* what the client reads of the deck in an initializeGame response
ClientCards(response) ==
    IF "encryptedCards" \in DOMAIN response
    THEN decryptData(response.encryptedCards, NEXT_PUBLIC_SECRET_PASSPHRASE)
    ELSE Some(response.cards)

\* the response initializeGame of the running module gives for a deck
InitResponseOf(sid, cards) ==
    CASE variant = "part_001" -> initializeGameResponse(sid, cards)
      [] variant = "route_db" -> initializeGameDbResponse(sid, cards)
      [] variant = "route_mem" -> initializeGameMemResponse(sid, cards)

InitAnswered(sid) ==
    /\ Stored(sid)
    /\ last = Some(InitResponseOf(sid, sessions[sid].cards))

(* C22: the response of initializeGame tells the client nothing about which
   symbol is at which position: what the client reads from the response it got
   is what it would read had the deck been shuffled any other way. *)
C22_InitResponseHidesDeck ==
    \A sid \in SessionIds :
       InitAnswered(sid) =>
          \A emojis \in EmojiLists : \A other \in Shuffle(emojis) :
             ClientCards(Val(last)) = ClientCards(InitResponseOf(sid, other))

----------------------------------------------------------------------------
(* C23: the response of recordMove carries, in revealedCards, the symbol of
   exactly the two just-flipped positions when that flip completed a pair,
   and '?' at every other position and in every other response. *)

\* the positions of the pair an accepted flip of cardId completed, if it did
CompletedPair(before, after, cardId) ==
    IF after.matchedPairs > before.matchedPairs
    THEN {before.flippedCards[1], cardId}
    ELSE {}

C23_RevealedCardsShowMatchedPair ==
    [][\A sid \in SessionIds, cardId \in CardIds :
         (variant = "route_mem" /\ recordMove(sid, cardId) /\ Val(last').status = 200)
            => \A i \in 1..Len(sessions[sid].cards) :
                  Val(last').revealedCards[i] =
                     IF (i - 1) \in CompletedPair(sessions[sid], sessions'[sid], cardId)
                     THEN sessions[sid].cards[i]
                     ELSE "?"]_vars

----------------------------------------------------------------------------
(* C24: a session created by initializeGame is still found by the move,
   completion and score handlers after the server process restarts. *)
C24_SessionsSurviveRestart ==
    [][Restart => \A sid \in DOMAIN sessions : sid \in DOMAIN sessions']_vars

----------------------------------------------------------------------------
(* C25: an error response carries the status class of its kind; in
   particular a well-formed makeMove, completeGame or submitScore request
   with an unknown session id is answered 404. *)
C25_UnknownSessionIs404 ==
    [][\A cardId \in CardIds, endTime \in ClaimedEndTimes \ {0},
          moves \in ClaimedMoves \ {None}, name \in Names \ {""},
          country \in Countries :
         (/\ ~Stored(UnknownId)
          /\ \/ makeMove(UnknownId, cardId)
             \/ completeGame(UnknownId, endTime, moves)
             \/ submitScore(UnknownId, name, country)
             \/ recordMove(UnknownId, cardId))
            => Val(last').status = 404]_vars

----------------------------------------------------------------------------
(* Store failures.  Every awaited call on the MongoDB client may throw; a    *)
(* call that throws has done nothing to the collections.  What the handler   *)
(* has done before the throw stays done.                                      *)

\* the awaited store calls of a handler, in the order it makes them
makeMoveCalls == <<"getMongoClient", "findOne", "updateOne">>
completeGameCalls == <<"getMongoClient", "findOne", "updateOne">>
submitScoreCalls == <<"getMongoClient", "findOne", "insertOne">>
submitScoreMemCalls == <<"connect", "insertOne", "close">>

CallsOf(calls) == {calls[i] : i \in 1..Len(calls)}

\* part_001 lines 147-204: a throw anywhere in the try block is answered by
\* the catch; updateOne, the only write, is the last call
makeMoveFailing(store, board, sid, cardId, t, call) ==
    [sessions |-> store, leaderboard |-> board,
     response |-> Err(500, "Failed to make move")]

makeMoveFails(sid, cardId, call) ==
    /\ variant = "part_001"
    /\ call \in CallsOf(makeMoveCalls)
    /\ call = "updateOne" => ~makeMoveRejects(sessions, sid)
    /\ Applied(makeMoveFailing(sessions, leaderboard, sid, cardId, now, call))
    /\ UNCHANGED <<variant, client, game, localStorage, now, issued, worker>>

\* part_001 lines 213-243: the body check is made before the try block
completeGameFailing(store, board, sid, endTime, moves, call) ==
    [sessions |-> store, leaderboard |-> board,
     response |-> Err(500, "Failed to complete game")]

completeGameFails(sid, endTime, moves, call) ==
    /\ variant = "part_001"
    /\ call \in CallsOf(completeGameCalls)
    /\ ~(FalsyStr(sid) \/ FalsyNum(endTime) \/ moves = None)
    /\ call = "updateOne" => completeGameEarly(sessions, sid, endTime, moves) = None
    /\ Applied(completeGameFailing(sessions, leaderboard, sid, endTime, moves, call))
    /\ UNCHANGED <<variant, client, game, localStorage, now, issued, worker>>

\* part_001 lines 253-282: insertOne, the only write, is the last call
submitScoreFailing(store, board, sid, name, country, t, call) ==
    [sessions |-> store, leaderboard |-> board,
     response |-> Err(500, "Failed to submit score")]

submitScoreFails(sid, name, country, call) ==
    /\ variant = "part_001"
    /\ call \in CallsOf(submitScoreCalls)
    /\ ~(FalsyStr(sid) \/ FalsyStr(name))
    /\ call = "insertOne" => submitScoreEarly(sessions, sid, name) = None
    /\ Applied(submitScoreFailing(sessions, leaderboard, sid, name, country, now, call))
    /\ UNCHANGED <<variant, client, game, localStorage, now, issued, worker>>

\* route.ts lines 380-402: connect and insertOne throw into the catch; close
\* is awaited in the finally block, after insertOne and the delete of line 394,
\* and its throw replaces the 201 response: POST (lines 266-283) has no try
\* block and returns the promise of submitScore (line 278), so the rejection
\* leaves the route handler and the framework answers 500
submitScoreMemFailing(store, board, sid, name, country, t, call) ==
    IF call = "close"
    THEN [sessions |-> Delete(store, sid),
          leaderboard |-> Append(board,
              [name |-> name, time |-> t - store[sid].startTime,
               moves |-> store[sid].moves,
               country |-> CountryOrDefault(country), date |-> ISOString(t)]),
          response |-> Err(500, "Internal Server Error")]
    ELSE [sessions |-> store, leaderboard |-> board,
          response |-> Err(500, "Failed to submit score")]

submitScoreMemFails(sid, name, country, call) ==
    /\ variant = "route_mem"
    /\ call \in CallsOf(submitScoreMemCalls)
    /\ Len(leaderboard) < MaxEntries
    /\ Stored(sid) /\ sessions[sid].completed
    /\ Applied(submitScoreMemFailing(sessions, leaderboard, sid, name, country, now, call))
    /\ UNCHANGED <<variant, client, game, localStorage, now, issued, worker>>

FailCardIds == 0..3
FailNames == Names \ {""}

InitFail == Init /\ variant \in {"part_001", "route_mem"}

NextFail ==
    \/ \E t \in Times : TickTo(t)
    \/ \E emojis \in EmojiLists : \E cards \in ConcDecks : initializeGame(emojis, cards)
    \/ \E emojis \in EmojiLists : \E cards \in ConcDecks : initializeGameMem(emojis, cards)
    \/ \E sid \in SessionIds, cardId \in FailCardIds : makeMove(sid, cardId)
    \/ \E sid \in SessionIds, cardId \in FailCardIds : recordMove(sid, cardId)
    \/ \E sid \in SessionIds, endTime \in ConcEndTimes, moves \in ConcMoves :
         completeGame(sid, endTime, moves)
    \/ \E sid \in SessionIds, endTime \in ConcEndTimes : completeGameMem(sid, endTime)
    \/ \E sid \in SessionIds, name \in FailNames, country \in Countries :
         submitScore(sid, name, country)
    \/ \E sid \in SessionIds, name \in FailNames, country \in Countries :
         submitScoreMem(sid, name, country)
    \/ \E sid \in SessionIds, cardId \in FailCardIds, call \in CallsOf(makeMoveCalls) :
         makeMoveFails(sid, cardId, call)
    \/ \E sid \in SessionIds, endTime \in ConcEndTimes, moves \in ConcMoves,
          call \in CallsOf(completeGameCalls) :
         completeGameFails(sid, endTime, moves, call)
    \/ \E sid \in SessionIds, name \in FailNames, country \in Countries,
          call \in CallsOf(submitScoreCalls) :
         submitScoreFails(sid, name, country, call)
    \/ \E sid \in SessionIds, name \in FailNames, country \in Countries,
          call \in CallsOf(submitScoreMemCalls) :
         submitScoreMemFails(sid, name, country, call)

SpecFail == InitFail /\ [][NextFail]_vars

(* C26: when a store call fails during makeMove, completeGame or submitScore,
   the call is answered 500 and the sessions and the leaderboard are as they
   were before the call. *)
C26_StoreFailureLeavesNoTrace ==
    [][\A sid \in SessionIds, cardId \in FailCardIds, endTime \in ConcEndTimes,
          moves \in ConcMoves, name \in FailNames, country \in Countries,
          call \in {"getMongoClient", "findOne", "updateOne", "insertOne",
                    "connect", "close"} :
         (\/ makeMoveFails(sid, cardId, call)
          \/ completeGameFails(sid, endTime, moves, call)
          \/ submitScoreFails(sid, name, country, call)
          \/ submitScoreMemFails(sid, name, country, call))
            => /\ Val(last').status = 500
               /\ sessions' = sessions
               /\ leaderboard' = leaderboard]_vars

----------------------------------------------------------------------------
(* Decks: initializeGame over lists of one, two and three distinct symbols *)

SymbolLists == {<<"A">>, <<"A", "B">>, <<"A", "B", "C">>}

NextDeck ==
    \/ \E emojis \in SymbolLists : \E cards \in Shuffle(emojis) : initializeGame(emojis, cards)
    \/ \E emojis \in SymbolLists : \E cards \in Shuffle(emojis) : initializeGameDb(emojis, cards)
    \/ \E emojis \in SymbolLists : \E cards \in Shuffle(emojis) : initializeGameMem(emojis, cards)

SpecDeck == Init /\ [][NextDeck]_vars

\* how many cards of a deck carry a symbol
Copies(cards, emoji) == Cardinality({i \in 1..Len(cards) : cards[i] = emoji})

\* a deck of 2N cards with each of the N symbols of a list exactly twice
IsDoubled(cards, emojis) ==
    /\ Len(cards) = 2 * Len(emojis)
    /\ \A n \in 1..Len(emojis) : Copies(cards, emojis[n]) = 2

(* C27: for every list of N distinct symbols passed to initializeGame, the
   stored deck has length 2N and holds each symbol exactly twice. *)
C27_DeckHoldsEachSymbolTwice ==
    \A sid \in DOMAIN sessions :
       \E emojis \in SymbolLists : IsDoubled(sessions[sid].cards, emojis)

\* a stored deck of three symbols that is not the doubled list in its own order
C27_Witness ==
    \E sid \in DOMAIN sessions :
       /\ InitAnswered(sid)
       /\ sessions[sid].cards = <<"C", "A", "B", "A", "C", "B">>

----------------------------------------------------------------------------
(* Names: submitScore of part_001 over names with and without blanks *)

TypedNames == Names \cup {" ", " Ann "}

\* the names above that begin or end with a blank: the ones trimming changes
OuterBlanks(name) == name \in {" ", " Ann "}

InitNames == Init /\ variant = "part_001"

NextNames ==
    \/ \E t \in ConcTimes : TickTo(t)
    \/ \E emojis \in EmojiLists : \E cards \in ConcDecks : initializeGame(emojis, cards)
    \/ \E sid \in SessionIds, endTime \in ConcEndTimes, moves \in ConcMoves :
         completeGame(sid, endTime, moves)
    \/ \E sid \in SessionIds, name \in TypedNames, country \in Countries :
         submitScore(sid, name, country)

SpecNames == InitNames /\ [][NextNames]_vars

(* C28: every leaderboard entry written by submitScore has a name that is
   trimmed and not empty after trimming. *)
C28_EntryNamesTrimmedNonEmpty ==
    \A i \in 1..Len(leaderboard) :
       /\ ~OuterBlanks(leaderboard[i].name)
       /\ leaderboard[i].name # ""

----------------------------------------------------------------------------
(* C30: lastMoveTimestamp is the time of the most recently accepted flip:
   recordMove sets it to the time of the call when it accepts the flip, and
   leaves the whole session as it was when it rejects the move. *)
C30_TimestampOfLastAcceptedFlip ==
    [][\A sid \in SessionIds, cardId \in CardIds :
         (variant = "route_mem" /\ Stored(sid) /\ recordMove(sid, cardId))
            => IF Val(last').status = 200
               THEN sessions'[sid].lastMoveTimestamp = now
               ELSE sessions' = sessions]_vars

----------------------------------------------------------------------------
(* C31: in makeMove of part_001, the two positions of a pair that did not
   match stay in flippedCards: the flip that makes the pair stores both and
   leaves matchedPairs and completed as they were, completeGame does not touch
   them, and the next accepted flip stores its own position alone. *)

\* a second flip of a session that does not match the first
SecondFlipMisses(session, cardId) ==
    /\ Len(session.flippedCards) = 1
    /\ CardAt(session.cards, session.flippedCards[1]) # CardAt(session.cards, cardId)

C31_UnmatchedPairStaysUntilNextFlip ==
    variant = "part_001" =>
       \A sid \in DOMAIN sessions :
          ~makeMoveRejects(sessions, sid) =>
             /\ \A cardId \in CardIds :
                   LET after == makeMoveResult(sessions, leaderboard, sid, cardId,
                                               now).sessions[sid]
                   IN /\ SecondFlipMisses(sessions[sid], cardId) =>
                            /\ after.flippedCards = <<sessions[sid].flippedCards[1], cardId>>
                            /\ after.matchedPairs = sessions[sid].matchedPairs
                            /\ after.completed = sessions[sid].completed
                      /\ Len(sessions[sid].flippedCards) = 2 =>
                            after.flippedCards = <<cardId>>
             /\ \A endTime \in ClaimedEndTimes, moves \in ClaimedMoves :
                   completeGameResult(sessions, leaderboard, sid, endTime, moves)
                         .sessions[sid].flippedCards = sessions[sid].flippedCards

\* a session whose first pair did not match and whose third flip was accepted
C31_Witness ==
    /\ variant = "part_001"
    /\ Stored("s1")
    /\ ~sessions["s1"].completed
    /\ sessions["s1"].moves = 1
    /\ sessions["s1"].matchedPairs = 0
    /\ Len(sessions["s1"].flippedCards) = 1

----------------------------------------------------------------------------
(* C32: no call changes the id, the startTime or the cards of a session: as
   long as the session is stored, the three fields are the ones initializeGame
   gave it. *)
C32_IdStartTimeCardsKept ==
    [][\A sid \in DOMAIN sessions :
          sid \in DOMAIN sessions' =>
             /\ sessions'[sid].id = sessions[sid].id
             /\ sessions'[sid].startTime = sessions[sid].startTime
             /\ sessions'[sid].cards = sessions[sid].cards]_vars

\* a session of part_001 that moves matched a pair of, that completeGame
\* completed later than it started, and that submitScore took its entry from
C32_Witness ==
    /\ variant = "part_001"
    /\ Stored("s1")
    /\ sessions["s1"].matchedPairs = 1
    /\ sessions["s1"].completed
    /\ sessions["s1"].endTime = Some(7000)
    /\ Len(leaderboard) = 1
    /\ now > sessions["s1"].startTime

----------------------------------------------------------------------------
(* C33: a pair is found only by flips of two distinct positions: a flip of the
   position that is already the one revealed card never increases
   matchedPairs, and so never completes the session. *)
C33_SamePositionTwiceIsNoMatch ==
    [][\A sid \in SessionIds, cardId \in CardIds :
         (/\ variant = "part_001"
          /\ Stored(sid)
          /\ sessions[sid].flippedCards = <<cardId>>
          /\ makeMove(sid, cardId))
            => /\ sessions'[sid].matchedPairs = sessions[sid].matchedPairs
               /\ sessions'[sid].completed = sessions[sid].completed]_vars

----------------------------------------------------------------------------
(* C34: no leaderboard entry has a time below 5000 ms, whether its session
   was completed by moves or by completeGame. *)
C34_NoEntryUnder5000 ==
    HasMatchState =>
       \A i \in 1..Len(leaderboard) : leaderboard[i].time >= 5000

----------------------------------------------------------------------------
(* C35: two completeGame calls that both found the same session not yet
   completed record one completion: they answer the same moves and time, and
   the stored moves and endTime are the ones they answered. *)

\* both workers have finished a completeGame on the same session, each having
\* read the same stored session
BothCompleted(v, w) ==
    /\ v # w
    /\ worker[v].pc = "done" /\ worker[w].pc = "done"
    /\ Val(worker[v].body).action = "completeGame"
    /\ Val(worker[w].body).action = "completeGame"
    /\ Val(worker[v].body).sessionId = Val(worker[w].body).sessionId
    /\ Val(worker[v].locals).session = Val(worker[w].locals).session

\* what a finished completeGame answered (line 240)
AnsweredBy(w) ==
    completeGameResponse(Val(worker[w].body).moves,
                         Val(worker[w].body).endTime
                            - Val(worker[w].locals).session.startTime)

C35_ConcurrentCompletionRecordedOnce ==
    \A v, w \in Workers :
        BothCompleted(v, w) =>
            LET sid == Val(worker[v].body).sessionId
            IN /\ AnsweredBy(v) = AnsweredBy(w)
               /\ sessions[sid].moves = AnsweredBy(v).moves
               /\ Val(sessions[sid].endTime) - sessions[sid].startTime = AnsweredBy(v).time

----------------------------------------------------------------------------
(* route.ts second module with two requests in flight: GET and submitScore, *)
(* one action per awaited call on the module-level client (line 225).  Every *)
(* handler connects the one client, runs its operation and closes the client *)
(* in its finally block.                                                      *)

\* lines 381-390: the entry submitScore inserts
submitScoreMemEntry(session, name, country, gameTime, t) ==
    [name |-> name, time |-> gameTime, moves |-> session.moves,
     country |-> CountryOrDefault(country), date |-> ISOString(t)]

\* line 249: await client.connect()
GETConnect(w) ==
    /\ variant = "route_mem"
    /\ worker[w].pc \in {"idle", "done", "rejected"}
    /\ client' = "open"
    /\ worker' = [worker EXCEPT ![w] =
                     [pc |-> "connected", body |-> Some([action |-> "GET"]),
                      locals |-> None]]
    /\ UNCHANGED <<variant, game, localStorage, now, sessions, issued, leaderboard, last>>

\* lines 251-259: find().sort().limit().toArray() and the response.  On a
\* client that was closed meanwhile the driver either throws, which the catch
\* answers, or connects it again and runs the operation
GETFind(w) ==
    /\ variant = "route_mem"
    /\ worker[w].pc = "connected"
    /\ Val(worker[w].body).action = "GET"
    /\ \/ /\ last' \in {Some(r) : r \in GETResponses(leaderboard)}
          /\ client' = "open"
       \/ /\ client = "closed"
          /\ last' = Some(Err(500, "Failed to fetch leaderboard"))
          /\ client' = client
    /\ worker' = [worker EXCEPT ![w].pc = "finally"]
    /\ UNCHANGED <<variant, game, localStorage, now, sessions, issued, leaderboard>>

\* lines 370-381: the session check, gameTime and await client.connect()
submitScoreMemConnect(w, sid, name, country) ==
    /\ variant = "route_mem"
    /\ worker[w].pc \in {"idle", "done", "rejected"}
    /\ LET body == [action |-> "submitScore", sessionId |-> sid, name |-> name,
                    country |-> country]
       IN IF ~Stored(sid) \/ ~sessions[sid].completed
          THEN /\ last' = Some(Err(400, "Invalid game session or game not completed"))
               /\ client' = client
               /\ worker' = [worker EXCEPT ![w] =
                                [pc |-> "rejected", body |-> Some(body), locals |-> None]]
          ELSE /\ last' = last
               /\ client' = "open"
               /\ worker' = [worker EXCEPT ![w] =
                                [pc |-> "connected", body |-> Some(body),
                                 locals |-> Some([session |-> sessions[sid],
                                                  gameTime |-> now - sessions[sid].startTime])]]
    /\ UNCHANGED <<variant, game, localStorage, now, sessions, issued, leaderboard>>

\* lines 385-399: insertOne, the delete of the session and the response; on a
\* client that was closed meanwhile, as for GETFind
submitScoreMemInsert(w) ==
    /\ variant = "route_mem"
    /\ worker[w].pc = "connected"
    /\ Val(worker[w].body).action = "submitScore"
    /\ Len(leaderboard) < MaxEntries
    /\ LET body == Val(worker[w].body)
           locals == Val(worker[w].locals)
       IN \/ /\ leaderboard' = Append(leaderboard,
                    submitScoreMemEntry(locals.session, body.name, body.country,
                                        locals.gameTime, now))
             /\ sessions' = Delete(sessions, body.sessionId)
             /\ last' = Some([status |-> 201, message |-> "Score submitted successfully"])
             /\ client' = "open"
          \/ /\ client = "closed"
             /\ last' = Some(Err(500, "Failed to submit score"))
             /\ UNCHANGED <<leaderboard, sessions, client>>
    /\ worker' = [worker EXCEPT ![w].pc = "finally"]
    /\ UNCHANGED <<variant, game, localStorage, now, issued>>

\* lines 260-263 and 400-402: await client.close() in the finally block
clientClose(w) ==
    /\ variant = "route_mem"
    /\ worker[w].pc = "finally"
    /\ client' = "closed"
    /\ worker' = [worker EXCEPT ![w].pc = "done"]
    /\ UNCHANGED <<variant, game, localStorage, now, sessions, issued, leaderboard, last>>

InitClient == Init /\ variant = "route_mem"

NextClient ==
    \/ \E t \in Times : TickTo(t)
    \/ \E emojis \in EmojiLists : \E cards \in ConcDecks : initializeGameMem(emojis, cards)
    \/ \E sid \in SessionIds, cardId \in FailCardIds : recordMove(sid, cardId)
    \/ \E w \in Workers : GETConnect(w)
    \/ \E w \in Workers : GETFind(w)
    \/ \E w \in Workers, sid \in SessionIds, name \in FailNames, country \in Countries :
         submitScoreMemConnect(w, sid, name, country)
    \/ \E w \in Workers : submitScoreMemInsert(w)
    \/ \E w \in Workers : clientClose(w)

SpecClient == InitClient /\ [][NextClient]_vars

(* C36: a request that has connected the shared client and not yet run its
   leaderboard read or insert finds the client open: no other request has
   closed it in between. *)
C36_ClientOpenBetweenConnectAndOperation ==
    \A w \in Workers : worker[w].pc = "connected" => client = "open"

----------------------------------------------------------------------------
(* The MemoryGame component of memory-game.tsx.  One action per event the    *)
(* component handles: a click, a timer, a response.  The server is what      *)
(* answers: a deck, a success or a failure.                                  *)

\* lines 160-165: the cards built from the deck of the response
FreshCards(deck) ==
    [i \in 1..Len(deck) |-> [emoji |-> deck[i], isFlipped |-> FALSE, isMatched |-> FALSE]]

\* lines 142-171: initializeGame once the server has answered
GameInitialized(g, deck, sid) ==
    [g EXCEPT !.sessionId = Some(sid),
              !.cards = FreshCards(deck),
              !.flippedCards = << >>,
              !.matchedPairs = 0,
              !.moves = 0,
              !.isGameComplete = FALSE]

\* lines 37-44: the effect that runs initializeGame when the component mounts
mountGame(deck) ==
    /\ game = Unmounted
    /\ game' = GameInitialized(game, deck, "s1")
    /\ UNCHANGED <<variant, client, localStorage, now, sessions, issued, leaderboard,
                   worker, last>>

\* line 179: the clicks handleCardClick returns from at once
ClickIgnored(g, id) ==
    \/ g.cards[id + 1].isMatched
    \/ g.cards[id + 1].isFlipped
    \/ Len(g.flippedCards) = 2
    \/ g.sessionId = None
    \/ g.isGameComplete

\* lines 178-229: the state after a click handleCardClick does not ignore
CardClicked(g, id) ==
    LET second == Len(g.flippedCards) = 1
        firstCardId == g.flippedCards[1]
        match == second /\ g.cards[firstCardId + 1].emoji = g.cards[id + 1].emoji
        newPairs == g.matchedPairs + 1
        flipped == [g.cards EXCEPT ![id + 1].isFlipped = TRUE]
        matched == [i \in 1..Len(flipped) |->
                       IF (i - 1) \in {firstCardId, id}
                       THEN [flipped[i] EXCEPT !.isMatched = TRUE, !.isFlipped = TRUE]
                       ELSE flipped[i]]
    IN [g EXCEPT !.moves = IF second THEN g.moves + 1 ELSE g.moves,
                 !.cards = IF match THEN matched ELSE flipped,
                 !.flippedCards = IF second THEN << >> ELSE Append(g.flippedCards, id),
                 !.matchedPairs = IF match THEN newPairs ELSE g.matchedPairs,
                 !.timers = IF second /\ ~match
                            THEN g.timers \cup {<<firstCardId, id>>}
                            ELSE g.timers,
                 !.pending = IF match /\ newPairs * 2 = Len(g.cards)
                             THEN g.pending \cup {"completeGame"}
                             ELSE g.pending]

\* the timers of unmatched pairs that are pending together
MaxTimers == 1

\* the pairs a player turns up in one game
MaxPairsTurned == 3

\* line 412: the card's onClick, and handleCardClick
handleCardClick(id) ==
    /\ game.sessionId # None
    /\ id \in 0..(Len(game.cards) - 1)
    /\ ~game.isGameComplete
    /\ ~ClickIgnored(game, id)
    /\ Cardinality(CardClicked(game, id).timers) <= MaxTimers
    /\ CardClicked(game, id).moves <= MaxPairsTurned
    /\ game' = CardClicked(game, id)
    /\ UNCHANGED <<variant, client, localStorage, now, sessions, issued, leaderboard,
                   worker, last>>

\* lines 218-225: the timer of a pair that did not match turns its two cards
\* face down
mismatchTimerFires(pair) ==
    /\ pair \in game.timers
    /\ game' = [game EXCEPT
                  !.timers = game.timers \ {pair},
                  !.cards = [i \in 1..Len(game.cards) |->
                                IF (i - 1) \in {pair[1], pair[2]}
                                THEN [game.cards[i] EXCEPT !.isFlipped = FALSE]
                                ELSE game.cards[i]]]
    /\ UNCHANGED <<variant, client, localStorage, now, sessions, issued, leaderboard,
                   worker, last>>

\* lines 231-257: the response to the completeGame request of handleGameComplete
completeGameAnswered(success) ==
    /\ "completeGame" \in game.pending
    /\ game' = [game EXCEPT !.pending = game.pending \ {"completeGame"},
                            !.isGameComplete = IF success THEN TRUE ELSE game.isGameComplete]
    /\ UNCHANGED <<variant, client, localStorage, now, sessions, issued, leaderboard,
                   worker, last>>

\* lines 259-272: the fifth click on the title matches every card
handleTitleClick ==
    /\ game.sessionId # None
    /\ LET newCount == game.titleClickCount + 1
       IN game' =
            IF newCount = 5
            THEN [game EXCEPT
                    !.cards = [i \in 1..Len(game.cards) |->
                                  [game.cards[i] EXCEPT !.isFlipped = TRUE,
                                                        !.isMatched = TRUE]],
                    !.matchedPairs = Len(game.cards) \div 2,
                    !.isGameComplete = TRUE,
                    !.isEasterEggActivated = TRUE,
                    !.titleClickCount = 0]
            ELSE [game EXCEPT !.titleClickCount = newCount]
    /\ UNCHANGED <<variant, client, localStorage, now, sessions, issued, leaderboard,
                   worker, last>>

\* lines 274-282, behind the Play Again buttons of lines 383 and 429
resetGame(deck) ==
    /\ game.isGameComplete
    /\ game' = [GameInitialized(game, deck, "s1") EXCEPT
                  !.titleClickCount = 0,
                  !.hasSubmitted = FALSE,
                  !.isEasterEggActivated = FALSE]
    /\ UNCHANGED <<variant, client, localStorage, now, sessions, issued, leaderboard,
                   worker, last>>

\* line 377: the Submit to Leaderboard button of the congratulations modal
openNameModal ==
    /\ game.isGameComplete
    /\ ~game.hasSubmitted /\ ~game.isEasterEggActivated
    /\ game' = [game EXCEPT !.showNameModal = TRUE]
    /\ UNCHANGED <<variant, client, localStorage, now, sessions, issued, leaderboard,
                   worker, last>>

\* lines 296-309 and 333: the calls that send no request
SubmitRefused(g, name) ==
    \/ FalsyStr(name) \/ g.isSubmitting
    \/ g.hasSubmitted
    \/ g.isEasterEggActivated
    \/ g.sessionId = None

\* lines 330-336 and 295-317: handleNameSubmit and submitToLeaderboard up to
\* the request
handleNameSubmit(name) ==
    /\ game.showNameModal
    /\ game' = IF SubmitRefused(game, name)
               THEN game
               ELSE [game EXCEPT !.isSubmitting = TRUE,
                                 !.pending = game.pending \cup {"submitScore"}]
    /\ UNCHANGED <<variant, client, localStorage, now, sessions, issued, leaderboard,
                   worker, last>>

\* a component that marks the game submitted whatever the answer, for comparison
SubmitAnsweredAlwaysMarks(g, success) ==
    [g EXCEPT !.pending = g.pending \ {"submitScore"},
              !.hasSubmitted = TRUE,
              !.isSubmitting = FALSE,
              !.showNameModal = FALSE]

\* lines 318-327: the rest of submitToLeaderboard, after the response
SubmitAnswered(g, success) ==
    [g EXCEPT !.pending = g.pending \ {"submitScore"},
              !.hasSubmitted = IF success THEN TRUE ELSE g.hasSubmitted,
              !.isSubmitting = FALSE,
              !.showNameModal = FALSE]

submitScoreAnswered(success) ==
    /\ "submitScore" \in game.pending
    /\ game' = SubmitAnswered(game, success)
    /\ UNCHANGED <<variant, client, localStorage, now, sessions, issued, leaderboard,
                   worker, last>>

\* line 540: Cancel
cancelNameModal ==
    /\ game.showNameModal
    /\ game' = [game EXCEPT !.showNameModal = FALSE]
    /\ UNCHANGED <<variant, client, localStorage, now, sessions, issued, leaderboard,
                   worker, last>>

GameDecks == ConcDecks

InitGame == Init /\ variant = "part_001"

NextGame ==
    \/ \E deck \in GameDecks : mountGame(deck)
    \/ \E id \in CardIds : handleCardClick(id)
    \/ \E pair \in CardIds \X CardIds : mismatchTimerFires(pair)
    \/ \E success \in BOOLEAN : completeGameAnswered(success)
    \/ handleTitleClick
    \/ \E deck \in GameDecks : resetGame(deck)
    \/ openNameModal
    \/ \E name \in Names : handleNameSubmit(name)
    \/ \E success \in BOOLEAN : submitScoreAnswered(success)
    \/ cancelNameModal

SpecGame == InitGame /\ [][NextGame]_vars

(* C37: in the game component flippedCards never holds more than two ids,
   never holds an id twice, and never holds the id of a matched card. *)
C37_FlippedCardsDistinctUnmatched ==
    /\ Len(game.flippedCards) <= 2
    /\ \A i, j \in 1..Len(game.flippedCards) :
          i # j => game.flippedCards[i] # game.flippedCards[j]
    /\ \A i \in 1..Len(game.flippedCards) :
          ~game.cards[game.flippedCards[i] + 1].isMatched

----------------------------------------------------------------------------
(* C38: the component sends at most one successful submitScore request per
   game: hasSubmitted becomes true only by the success of a submitScore
   request; while hasSubmitted or the easter egg is on, no request is sent;
   one request at most is awaited; and after a failed request hasSubmitted is
   false. *)

\* the step sends a submitScore request
SendsSubmitScore ==
    /\ ~("submitScore" \in game.pending)
    /\ "submitScore" \in game'.pending

C38_OneSuccessfulSubmitPerGame ==
    [][/\ (game'.hasSubmitted /\ ~game.hasSubmitted) => submitScoreAnswered(TRUE)
       /\ (game.hasSubmitted \/ game.isEasterEggActivated) => ~SendsSubmitScore
       /\ game.isSubmitting => ~SendsSubmitScore
       /\ ("submitScore" \in game.pending) => game.isSubmitting
       /\ submitScoreAnswered(FALSE) => ~game'.hasSubmitted]_vars

\* a game completed by matching both pairs, whose score the server accepted
C38_Witness ==
    /\ game.hasSubmitted
    /\ game.isGameComplete
    /\ ~game.isEasterEggActivated
    /\ game.matchedPairs = 2
    /\ ~game.isSubmitting

----------------------------------------------------------------------------
(* The MemoryGame component of part_000, which keeps the leaderboard in      *)
(* localStorage.  Of its state the submissions read hasSubmitted and          *)
(* isEasterEggActivated; the time of a game is endTime - startTime.           *)

\* slice(0, 10)
LocalSize == 10

LocalTimes == {1500, 4200}
LocalNames == {"Ann", "Bob"}

\* an array left as it is, for comparison
Unsorted(entries) == entries

\* sort((a, b) => a.time - b.time): Array.prototype.sort is stable, entries of
\* equal time keep their order
SortedByTimeStable(entries) ==
    LET n == Len(entries)
        Rank(i) == 1 + Cardinality({j \in 1..n :
                          \/ entries[j].time < entries[i].time
                          \/ entries[j].time = entries[i].time /\ j < i})
    IN [k \in 1..n |-> entries[CHOOSE i \in 1..n : Rank(i) = k]]

\* lines 165-172: the new entry and the leaderboard that is saved
NewLeaderboard(stored, name, time, t) ==
    LET newEntry == [name |-> name, time |-> time, moves |-> 0,
                     country |-> "globe", date |-> ISOString(t)]
    IN Limit(SortedByTimeStable(Append(stored, newEntry)), LocalSize)

\* lines 152-177: submitToLeaderboard, for the name the prompt returned
submitToLeaderboardLocal(name, time) ==
    /\ ~game.hasSubmitted /\ ~game.isEasterEggActivated
    /\ ~FalsyStr(name)
    /\ localStorage' = NewLeaderboard(localStorage, name, time, now)
    /\ game' = [game EXCEPT !.hasSubmitted = TRUE]
    /\ UNCHANGED <<variant, client, now, sessions, issued, leaderboard, worker, last>>

\* lines 132-138: resetGame
resetGameLocal(deck) ==
    /\ game' = [game EXCEPT !.cards = FreshCards(deck),
                            !.flippedCards = << >>,
                            !.matchedPairs = 0,
                            !.moves = 0,
                            !.isGameComplete = FALSE,
                            !.titleClickCount = 0,
                            !.hasSubmitted = FALSE,
                            !.isEasterEggActivated = FALSE]
    /\ UNCHANGED <<variant, client, localStorage, now, sessions, issued, leaderboard,
                   worker, last>>

InitLocal == Init /\ variant = "part_001"

NextLocal ==
    \/ \E name \in LocalNames, time \in LocalTimes : submitToLeaderboardLocal(name, time)
    \/ \E deck \in ConcDecks : resetGameLocal(deck)

SpecLocal == InitLocal /\ [][NextLocal]_vars

(* C39: after a submission the saved leaderboard is sorted ascending by time
   and holds at most 10 entries; it is the stored entries and the new one,
   less one entry when that makes 11, and the new entry is the one left out
   only if the 10 stored entries have a time less than or equal to its own. *)
C39_SavedLeaderboardSortedTopTen ==
    [][\A name \in LocalNames, time \in LocalTimes :
         submitToLeaderboardLocal(name, time) =>
            LET new == [name |-> name, time |-> time, moves |-> 0,
                        country |-> "globe", date |-> ISOString(now)]
                all == Append(localStorage, new)
                Occurrences(entries, e) ==
                    Cardinality({i \in 1..Len(entries) : entries[i] = e})
            IN /\ Len(localStorage') <= LocalSize
               /\ \A i \in 1..(Len(localStorage') - 1) :
                     localStorage'[i].time <= localStorage'[i + 1].time
               /\ Len(localStorage') = IF Len(all) > LocalSize THEN LocalSize ELSE Len(all)
               /\ \A i \in 1..Len(all) :
                     Occurrences(localStorage', all[i]) <= Occurrences(all, all[i])
               /\ \A i \in 1..Len(localStorage') :
                     Occurrences(all, localStorage'[i]) > 0
               /\ Occurrences(localStorage', new) < Occurrences(all, new) =>
                     /\ Len(localStorage) = LocalSize
                     /\ \A i \in 1..Len(localStorage) : localStorage[i].time <= time]_vars

\* ten entries are saved, the last of them slower than the first
C39_Witness ==
    /\ Len(localStorage) = LocalSize
    /\ localStorage[1].time < localStorage[LocalSize].time
    /\ game.hasSubmitted

====
